---- MODULE Spec2Model ----
(***************************************************************************)
(* Model of the three dataset utilities of AnemiaNet-ML:                   *)
(*   remove_null_columns.py  (remove_null_columns, process_folder)         *)
(*   convert_dta_to_csv.py   (convert_dta_to_csv)                          *)
(* The filesystem, the loaded table and the batch counters are the state.  *)
(***************************************************************************)
EXTENDS Integers, Sequences, FiniteSets, TLC

VARIABLES prog, fs, pc, call, hist, batch, conv

vars == <<prog, fs, pc, call, hist, batch, conv>>

(***************************************************************************)
(* Bounds of the model.                                                    *)
(***************************************************************************)
MaxCols == 3
MaxRows == 2
MaxCells == 6
MaxCalls == 2
MaxFiles == 2
MaxBatchCols == 2
MaxDepth == 1

(***************************************************************************)
(* Text of one field of a delimited text file: nothing between the         *)
(* separators, a quoted empty string, or some other text.                  *)
(***************************************************************************)
FBlank == ""
FQuoted == "\"\""
FText == "x"
FileCells == {FBlank, FQuoted, FText}

(* In-memory cell values: the missing-value marker, the empty string, text *)
NaN == "NaN"
EmptyStr == ""

(***************************************************************************)
(* File contents.  A table has a header (column names, here numbers) and   *)
(* rows of fields.  Bad is content the parser rejects (empty, truncated).  *)
(***************************************************************************)
Absent == [kind |-> "absent"]
Bad == [kind |-> "bad"]
Table(h, rs) == [kind |-> "table", hdr |-> h, rows |-> rs]

Header(c) == [j \in 1..c |-> j]

Tables ==
  UNION { { Table(Header(c), rs) : rs \in [1..r -> [1..c -> FileCells]] } :
            <<c, r>> \in { x \in (1..MaxCols) \X (0..MaxRows) : x[1] * x[2] <= MaxCells } }

(* Files of the batch pass: a header of at most MaxBatchCols columns and   *)
(* at most one data row, its fields unquoted.                              *)
BatchTables ==
  { t \in Tables : Len(t.hdr) <= MaxBatchCols /\ Len(t.rows) <= 1
                     /\ \A i \in 1..Len(t.rows), j \in 1..Len(t.hdr) : t.rows[i][j] # FQuoted }

(***************************************************************************)
(* Results of remove_null_columns.                                         *)
(***************************************************************************)
None == [kind |-> "None"]
Raised(e) == [kind |-> "raised", error |-> e]
Triple(o, r, d) ==
  [kind |-> "tuple", original_cols |-> o, remaining_cols |-> r, removed_cols |-> d]

(***************************************************************************)
(* pd.read_csv with its defaults: a blank line is skipped, an empty field  *)
(* (quoted or not) is loaded as the missing-value marker; a file with no   *)
(* header column, or unparseable content, raises.                          *)
(***************************************************************************)
IsBlankLine(h, row) == Len(h) = 1 /\ row[1] = FBlank

(* variant: a quoted empty field kept as the empty string *)
LoadCell_KeepQuoted(t) ==
  IF t = FBlank THEN NaN ELSE IF t = FQuoted THEN EmptyStr ELSE t

LoadCell(t) == IF t \in {FBlank, FQuoted} THEN NaN ELSE t

read_csv(c) ==
  IF c = Bad THEN Raised("ParserError")
  ELSE IF Len(c.hdr) = 0 THEN Raised("EmptyDataError")
  ELSE LET kept == SelectSeq(c.rows, LAMBDA row : ~IsBlankLine(c.hdr, row))
       IN [kind |-> "df",
           columns |-> c.hdr,
           rows |-> [i \in 1..Len(kept) |-> [j \in 1..Len(c.hdr) |-> LoadCell(kept[i][j])]]]

(***************************************************************************)
(* DataFrame.to_csv(index=False): the missing-value marker and the empty   *)
(* string are both written as an empty field; the csv writer quotes the    *)
(* empty field of a one-column row so that the line is not blank.          *)
(***************************************************************************)
StoreCell(v, ncols) ==
  IF v \in {NaN, EmptyStr} THEN (IF ncols = 1 THEN FQuoted ELSE FBlank) ELSE v

to_csv(df) ==
  Table(df.columns,
        [i \in 1..Len(df.rows) |->
           [j \in 1..Len(df.columns) |-> StoreCell(df.rows[i][j], Len(df.columns))]])

(***************************************************************************)
(* Lines 50-57: the two per-column counts and the columns to drop.         *)
(***************************************************************************)
null_counts(df, j) == Cardinality({ i \in 1..Len(df.rows) : df.rows[i][j] = NaN })

empty_string_counts(df, j) ==
  Cardinality({ i \in 1..Len(df.rows) : df.rows[i][j] = EmptyStr })

(* variant: both counts must reach the number of rows *)
Qualifies_Both(df, j) ==
  /\ null_counts(df, j) = Len(df.rows)
  /\ empty_string_counts(df, j) = Len(df.rows)

(* variant: one missing or empty value is enough *)
Qualifies_Any(df, j) ==
  \/ null_counts(df, j) > 0
  \/ empty_string_counts(df, j) > 0

Qualifies(df, j) ==
  \/ null_counts(df, j) = Len(df.rows)
  \/ empty_string_counts(df, j) = Len(df.rows)

(* positions of the columns to drop, in column order *)
cols_to_drop(df) ==
  SelectSeq([j \in 1..Len(df.columns) |-> j], LAMBDA j : Qualifies(df, j))

InSeq(x, s) == \E k \in 1..Len(s) : s[k] = x

(* df.drop(columns=cols_to_drop): the other columns, order kept *)
drop(df, cols) ==
  LET keep == SelectSeq([j \in 1..Len(df.columns) |-> j], LAMBDA j : ~InSeq(j, cols))
  IN [kind |-> "df",
      columns |-> [k \in 1..Len(keep) |-> df.columns[keep[k]]],
      rows |-> [i \in 1..Len(df.rows) |-> [k \in 1..Len(keep) |-> df.rows[i][keep[k]]]]]

(***************************************************************************)
(* Paths: a stem and a suffix.  The file the single-file calls work on.    *)
(***************************************************************************)
Path(st, sx) == [stem |-> st, suffix |-> sx]

csv_file == Path("data", ".csv")

(* variant: the sibling named after the whole file name *)
cleaned_path_from_name(p) == Path(p.stem \o p.suffix \o "_cleaned", ".csv")

(* line 73: csv_path.parent / f"{csv_path.stem}_cleaned.csv" *)
cleaned_path(p) == Path(p.stem \o "_cleaned", ".csv")

(* line 79: csv_path.with_suffix('.csv.backup') *)
backup_path(p) == Path(p.stem, ".csv.backup")

(* a file with the given stem, its _cleaned sibling and its backup *)
PathsOf(st) == {Path(st, ".csv"), Path(st \o "_cleaned", ".csv"), Path(st, ".csv.backup")}

Paths == PathsOf("data")

(* the k-th file the glob of process_folder found *)
BatchFile(k) == Path("f" \o ToString(k), ".csv")

BatchPaths == UNION { PathsOf(BatchFile(k).stem) : k \in 1..MaxFiles }

(***************************************************************************)
(* Filesystem effects, in the order the code performs them.                *)
(***************************************************************************)
Write(p, c) == [op |-> "write", path |-> p, data |-> c]
Denied(p) == [op |-> "denied", path |-> p, data |-> Absent]
Rename(p) == [op |-> "rename", path |-> p, data |-> Absent]

Apply(f, e) ==
  IF e.op = "write" THEN [f EXCEPT ![e.path] = e.data]
  ELSE IF e.op = "rename"
    THEN [f EXCEPT ![backup_path(e.path)] = f[e.path], ![e.path] = Absent]
  ELSE f

RECURSIVE ApplyAll(_, _)
ApplyAll(f, plan) == IF plan = <<>> THEN f ELSE ApplyAll(Apply(f, plan[1]), Tail(plan))

(* variant: the reduced table is written before the original is renamed *)
save_plan_write_first(p, cleaned, inplace, lk, fault) ==
  IF inplace
    THEN IF lk THEN <<Denied(p), Write(cleaned_path(p), to_csv(cleaned))>>
         ELSE IF fault THEN <<Write(p, Bad)>>
         ELSE <<Write(p, to_csv(cleaned))>>
    ELSE IF fault THEN <<Write(p, Bad), Rename(p)>>
         ELSE <<Write(p, to_csv(cleaned)), Rename(p)>>

(***************************************************************************)
(* Lines 68-81: how the reduced table is saved.  lk: opening p for writing *)
(* raises PermissionError; fault: the write to p fails with another error  *)
(* after the file was opened (what is left of it is not a table).          *)
(***************************************************************************)
save_plan(p, cleaned, inplace, lk, fault) ==
  IF inplace
    THEN IF lk THEN <<Denied(p), Write(cleaned_path(p), to_csv(cleaned))>>
         ELSE IF fault THEN <<Write(p, Bad)>>
         ELSE <<Write(p, to_csv(cleaned))>>
    ELSE IF fault THEN <<Rename(p), Write(p, Bad)>>
         ELSE <<Rename(p), Write(p, to_csv(cleaned))>>

save_raises(inplace, lk, fault) == fault /\ ~(inplace /\ lk)

(***************************************************************************)
(* remove_null_columns(csv_file, inplace), lines 12-97: the value returned *)
(* (or the exception raised), the loaded table, the columns dropped and    *)
(* the filesystem effects, as a function of what the path holds.           *)
(***************************************************************************)
NoRun(res) == [result |-> res, df |-> None, dropped |-> <<>>, plan |-> <<>>]

remove_null_columns(p, c, inplace, lk, fault) ==
  IF c = Absent THEN NoRun(None)
  ELSE LET df == read_csv(c) IN
    IF df.kind = "raised" THEN NoRun(df)
    ELSE LET original_cols == Len(df.columns)
             cols == cols_to_drop(df)
             df_cleaned == drop(df, cols)
             remaining_cols == Len(df_cleaned.columns)
             removed_cols == Len(cols)
         IN IF cols # <<>>
              THEN [result |-> IF save_raises(inplace, lk, fault)
                                 THEN Raised("OSError")
                                 ELSE Triple(original_cols, remaining_cols, removed_cols),
                    df |-> df,
                    dropped |-> cols,
                    plan |-> save_plan(p, df_cleaned, inplace, lk, fault)]
              ELSE [result |-> Triple(original_cols, original_cols, 0),
                    df |-> df, dropped |-> <<>>, plan |-> <<>>]

(***************************************************************************)
(* Directory trees of the converter: files with a stem, a suffix and a     *)
(* depth below the input directory, listed in traversal order.             *)
(***************************************************************************)
Suffixes == <<".dta", ".DTA", ".Dta", ".csv">>

Lower(sx) == IF sx \in {".dta", ".DTA", ".Dta"} THEN ".dta" ELSE sx

Entry(st, sx, d) == [stem |-> st, suffix |-> sx, depth |-> d]

(* the stem of the k-th file name: the ".DTA" file of each directory is    *)
(* named after the ".dta" file before it, with one more dotted part        *)
StemOf(k) ==
  IF Suffixes[((k - 1) % Len(Suffixes)) + 1] = ".DTA"
    THEN "e" \o ToString(k - 2) \o ".b"
    ELSE "e" \o ToString(k - 1)

Universe ==
  [k \in 1..(Len(Suffixes) * (MaxDepth + 1)) |->
     Entry(StemOf(k),
           Suffixes[((k - 1) % Len(Suffixes)) + 1],
           (k - 1) \div Len(Suffixes))]

Trees ==
  { SelectSeq(Universe, LAMBDA e : e \in S) :
      S \in { T \in SUBSET { Universe[k] : k \in 1..Len(Universe) } :
                Cardinality(T) <= MaxFiles } }

(* fnmatch of the pattern "*<sx>": exact where the platform's paths are    *)
(* case-sensitive, on the case-folded names where they are not.            *)
Matches(e, sx, case_sensitive) ==
  IF case_sensitive THEN e.suffix = sx ELSE Lower(e.suffix) = Lower(sx)

(* Path.rglob: every entry at any depth that matches, in traversal order *)
rglob(tree, sx, case_sensitive) ==
  SelectSeq(tree, LAMBDA e : Matches(e, sx, case_sensitive))

(* line 26 of convert_dta_to_csv.py *)
find_dta_files(tree, case_sensitive) ==
  rglob(tree, ".dta", case_sensitive) \o rglob(tree, ".DTA", case_sensitive)

(***************************************************************************)
(* Idle values of the parts of the state a program does not use.           *)
(***************************************************************************)
NoFiles == [p \in {} |-> Absent]
NoCall == [inplace |-> TRUE, lk |-> FALSE, before |-> NoFiles, run |-> NoRun(None)]
NoBatch == [phase |-> "off", csv_files |-> <<>>, i |-> 0,
            total_removed |-> 0, total_original |-> 0,
            successful |-> 0, failed |-> 0, log |-> <<>>, printed |-> None]
NoConv == [phase |-> "off", tree |-> <<>>, case_sensitive |-> TRUE, output_folder |-> FALSE,
           out |-> <<>>, dta_files |-> <<>>,
           i |-> 0, successful |-> 0, failed |-> 0, log |-> <<>>, printed |-> None]

InitDirect ==
  /\ prog = "direct"
  /\ \E c \in Tables \cup {Bad, Absent} :
       fs = [p \in Paths |-> IF p = csv_file THEN c ELSE Absent]
  /\ pc = 0
  /\ call = NoCall
  /\ hist = <<>>
  /\ batch = NoBatch
  /\ conv = NoConv

(* process_folder, lines 111-116: the files the glob found, and what each  *)
(* holds when the loop starts (Absent: removed since the glob)             *)
InitPrune ==
  /\ prog = "prune"
  /\ \E n \in 0..MaxFiles :
       /\ batch = [NoBatch EXCEPT !.phase = "start",
                                  !.csv_files = [k \in 1..n |-> BatchFile(k)]]
       /\ \E held \in [1..n -> BatchTables \cup {Bad, Absent}] :
            fs = [p \in BatchPaths |->
                    IF \E k \in 1..n : p = BatchFile(k)
                      THEN held[CHOOSE k \in 1..n : p = BatchFile(k)]
                      ELSE Absent]
  /\ pc = 0
  /\ call = NoCall
  /\ hist = <<>>
  /\ conv = NoConv

InitConvert ==
  /\ prog = "convert"
  /\ fs = NoFiles
  /\ pc = 0
  /\ call = NoCall
  /\ hist = <<>>
  /\ batch = NoBatch
  /\ \E t \in Trees, cs \in BOOLEAN, of \in BOOLEAN :
       conv = [NoConv EXCEPT !.phase = "start", !.tree = t,
                             !.case_sensitive = cs, !.output_folder = of]

Init == InitDirect \/ InitPrune \/ InitConvert

(***************************************************************************)
(* A single call of remove_null_columns on csv_file: the call, each of its *)
(* filesystem effects in turn, and its return.                             *)
(***************************************************************************)
Call(inplace, lk, fault) ==
  /\ prog = "direct"
  /\ pc = 0
  /\ Len(hist) < MaxCalls
  /\ call' = [inplace |-> inplace,
              lk |-> lk,
              before |-> fs,
              run |-> remove_null_columns(csv_file, fs[csv_file], inplace, lk, fault)]
  /\ pc' = 1
  /\ UNCHANGED <<prog, fs, hist, batch, conv>>

Effect ==
  /\ prog = "direct"
  /\ pc >= 1
  /\ pc <= Len(call.run.plan)
  /\ fs' = Apply(fs, call.run.plan[pc])
  /\ pc' = pc + 1
  /\ UNCHANGED <<prog, call, hist, batch, conv>>

Return ==
  /\ prog = "direct"
  /\ pc = Len(call.run.plan) + 1
  /\ hist' = Append(hist, [inplace |-> call.inplace,
                           result |-> call.run.result,
                           dropped |-> call.run.dropped,
                           diverted |-> call.inplace /\ call.lk /\ call.run.plan # <<>>])
  /\ pc' = 0
  /\ UNCHANGED <<prog, fs, call, batch, conv>>

(***************************************************************************)
(* process_folder, lines 118-149.                                          *)
(***************************************************************************)
PF_Start ==
  /\ prog = "prune"
  /\ batch.phase = "start"
  /\ batch' = IF batch.csv_files = <<>>
                THEN [batch EXCEPT !.phase = "nofiles"]
                ELSE [batch EXCEPT !.phase = "loop", !.i = 1]
  /\ UNCHANGED <<prog, fs, pc, call, hist, conv>>

Truthy(result) == result.kind = "tuple"

(* variant: an exception leaves the loop *)
process_file_abort(b, result) ==
  IF result.kind = "raised"
    THEN [b EXCEPT !.failed = @ + 1, !.phase = "aborted", !.log = Append(@, result)]
  ELSE IF Truthy(result)
    THEN [b EXCEPT !.total_original = @ + result.original_cols,
                   !.total_removed = @ + result.removed_cols,
                   !.successful = @ + 1,
                   !.i = @ + 1,
                   !.log = Append(@, result)]
  ELSE [b EXCEPT !.i = @ + 1, !.log = Append(@, result)]

(* variant: the remaining columns are accumulated for the average *)
process_file_remaining(b, result) ==
  IF result.kind = "raised"
    THEN [b EXCEPT !.failed = @ + 1, !.i = @ + 1, !.log = Append(@, result)]
  ELSE IF Truthy(result)
    THEN [b EXCEPT !.total_original = @ + result.remaining_cols,
                   !.total_removed = @ + result.removed_cols,
                   !.successful = @ + 1,
                   !.i = @ + 1,
                   !.log = Append(@, result)]
  ELSE [b EXCEPT !.i = @ + 1, !.log = Append(@, result)]

(* lines 130-141: one iteration, the counters *)
process_file(b, result) ==
  IF result.kind = "raised"
    THEN [b EXCEPT !.failed = @ + 1, !.i = @ + 1, !.log = Append(@, result)]
  ELSE IF Truthy(result)
    THEN [b EXCEPT !.total_original = @ + result.original_cols,
                   !.total_removed = @ + result.removed_cols,
                   !.successful = @ + 1,
                   !.i = @ + 1,
                   !.log = Append(@, result)]
  ELSE [b EXCEPT !.i = @ + 1, !.log = Append(@, result)]

(* lines 130-141: one iteration: the call of remove_null_columns on what   *)
(* the file holds, with the files it writes, then the counters             *)
PF_File(lk, fault) ==
  /\ prog = "prune"
  /\ batch.phase = "loop"
  /\ batch.i <= Len(batch.csv_files)
  /\ LET p == batch.csv_files[batch.i]
         run == remove_null_columns(p, fs[p], TRUE, lk, fault)
     IN /\ fs' = ApplyAll(fs, run.plan)
        /\ batch' = process_file(batch, run.result)
  /\ UNCHANGED <<prog, pc, call, hist, conv>>

(* line 149: total_original/successful if successful > 0 else 0 *)
average(total_original, successful) ==
  IF successful > 0 THEN [num |-> total_original, den |-> successful]
  ELSE [num |-> 0, den |-> 1]

PF_Summary ==
  /\ prog = "prune"
  /\ batch.phase = "loop"
  /\ batch.i > Len(batch.csv_files)
  /\ batch' = [batch EXCEPT !.phase = "done",
                 !.printed = [successful |-> batch.successful,
                              failed |-> batch.failed,
                              total_removed |-> batch.total_removed,
                              average |-> average(batch.total_original, batch.successful)]]
  /\ UNCHANGED <<prog, fs, pc, call, hist, conv>>

(***************************************************************************)
(* convert_dta_to_csv, lines 23-84.                                        *)
(***************************************************************************)
CV_Start ==
  /\ prog = "convert"
  /\ conv.phase = "start"
  /\ LET found == find_dta_files(conv.tree, conv.case_sensitive)
     IN conv' = IF found = <<>>
                  THEN [conv EXCEPT !.phase = "nofiles"]
                  ELSE [conv EXCEPT !.phase = "loop", !.dta_files = found, !.i = 1]
  /\ UNCHANGED <<prog, fs, pc, call, hist, batch>>

(* the statement of the loop body that raises, if any: the stat of the     *)
(* source (line 40), read_stata (46), mkdir (52), to_csv after it opened   *)
(* the file (62), the stat of the written file (66, the file being gone)   *)
RaiseAt == {"none", "stat", "read_stata", "mkdir", "to_csv", "stat_csv"}

(* the position of the last "." among the first k characters, 0 if none *)
RECURSIVE LastDot(_, _)
LastDot(name, k) ==
  IF k = 0 THEN 0
  ELSE IF SubSeq(name, k, k) = "." THEN k
  ELSE LastDot(name, k - 1)

(* the stem of Path.with_suffix(new): the name without its last suffix,    *)
(* a suffix being what follows a last dot that neither starts nor ends     *)
(* the name                                                                *)
with_suffix(name) ==
  LET d == LastDot(name, Len(name))
  IN IF d > 1 /\ d < Len(name) THEN SubSeq(name, 1, d - 1) ELSE name

(* lines 50-57: the file written for a source file: under the output       *)
(* folder the suffix of the mirrored file name is replaced, beside the     *)
(* source the last suffix of its stem is                                   *)
csv_of(e, output_folder) ==
  Entry(with_suffix(IF output_folder THEN e.stem \o e.suffix ELSE e.stem),
        ".csv", e.depth)

AddEntry(s, e) == IF InSeq(e, s) THEN s ELSE Append(s, e)

RemoveEntry(s, e) == SelectSeq(s, LAMBDA x : x # e)

(* the statements that leave the written file behind *)
LeavesFile(raise_at) == raise_at \in {"none", "to_csv"}

(* the directory the file is written to after one iteration: the file is   *)
(* there after lines 62-72, it is not when the stat of line 66 found none, *)
(* and an iteration that raised before line 62 touched nothing             *)
written(s, e, raise_at) ==
  IF LeavesFile(raise_at) THEN AddEntry(s, e)
  ELSE IF raise_at = "stat_csv" THEN RemoveEntry(s, e)
  ELSE s

(* lines 37-77: one iteration *)
convert_file(v, raise_at) ==
  LET e == csv_of(v.dta_files[v.i], v.output_folder)
      w == IF v.output_folder
             THEN [v EXCEPT !.out = written(@, e, raise_at)]
             ELSE [v EXCEPT !.tree = written(@, e, raise_at)]
  IN IF raise_at = "none"
       THEN [w EXCEPT !.successful = @ + 1, !.i = @ + 1, !.log = Append(@, "ok")]
       ELSE [w EXCEPT !.failed = @ + 1, !.i = @ + 1, !.log = Append(@, "failed")]

CV_File(raise_at) ==
  /\ prog = "convert"
  /\ conv.phase = "loop"
  /\ conv.i <= Len(conv.dta_files)
  /\ raise_at = "mkdir" => conv.output_folder
  /\ conv' = convert_file(conv, raise_at)
  /\ UNCHANGED <<prog, fs, pc, call, hist, batch>>

CV_Summary ==
  /\ prog = "convert"
  /\ conv.phase = "loop"
  /\ conv.i > Len(conv.dta_files)
  /\ conv' = [conv EXCEPT !.phase = "done",
                !.printed = [successful |-> conv.successful,
                             failed |-> conv.failed,
                             total |-> Len(conv.dta_files)]]
  /\ UNCHANGED <<prog, fs, pc, call, hist, batch>>

NextBatch ==
  \/ PF_Start
  \/ \E lk \in BOOLEAN, fault \in BOOLEAN : PF_File(lk, fault)
  \/ PF_Summary
  \/ CV_Start
  \/ \E raise_at \in RaiseAt : CV_File(raise_at)
  \/ CV_Summary

Next ==
  \/ \E inplace \in BOOLEAN, lk \in BOOLEAN, fault \in BOOLEAN : Call(inplace, lk, fault)
  \/ Effect
  \/ Return
  \/ NextBatch

Spec == Init /\ [][Next]_vars

(***************************************************************************)
(* Vocabulary of the properties.                                           *)
(***************************************************************************)
Returned == prog = "direct" /\ pc = 0 /\ hist # <<>>

Loaded == prog = "direct" /\ call.run.df.kind = "df"

AllMissing(df, j) == \A i \in 1..Len(df.rows) : df.rows[i][j] = NaN

AllEmptyString(df, j) == \A i \in 1..Len(df.rows) : df.rows[i][j] = EmptyStr

Dropped(j) == InSeq(j, call.run.dropped)

(* the path the last effect of the call wrote, once the call has returned *)
WrittenPath == call.run.plan[Len(call.run.plan)].path

PosIn(x, s) == CHOOSE k \in 1..Len(s) : s[k] = x

SiblingCleaned == Path("data_cleaned", ".csv")

BackupOfOriginal == Path("data", ".csv" \o ".backup")

(* C1: after remove_null_columns has loaded a table, a column is in the    *)
(* removal set exactly when every row of it is the missing-value marker or *)
(* every row of it is the empty string; once the call has written, the     *)
(* written table holds exactly the other columns, in their original        *)
(* relative order and with their values.                                   *)
C1_RemovedIffAllNullOrAllEmpty ==
  Loaded =>
    LET df == call.run.df IN
    /\ \A j \in 1..Len(df.columns) :
         Dropped(j) <=> (AllMissing(df, j) \/ AllEmptyString(df, j))
    /\ (Returned /\ call.run.result.kind = "tuple" /\ call.run.plan # <<>>) =>
         LET w == fs[WrittenPath] IN
         /\ w.kind = "table"
         /\ { w.hdr[k] : k \in 1..Len(w.hdr) }
              = { df.columns[j] : j \in { x \in 1..Len(df.columns) :
                     ~(AllMissing(df, x) \/ AllEmptyString(df, x)) } }
         /\ \A k, l \in 1..Len(w.hdr) :
              k < l => PosIn(w.hdr[k], df.columns) < PosIn(w.hdr[l], df.columns)
         /\ Len(w.hdr) > 0 =>
              LET back == read_csv(w) IN
              /\ Len(back.rows) = Len(df.rows)
              /\ \A i \in 1..Len(df.rows), k \in 1..Len(w.hdr) :
                   back.rows[i][k] = df.rows[i][PosIn(w.hdr[k], df.columns)]

(* a three-column table lost one all-missing column and kept, in order, a  *)
(* partially missing and a fully populated one *)
C1_Witness ==
  /\ Returned /\ Loaded /\ call.run.result.kind = "tuple"
  /\ Len(call.run.df.columns) = 3
  /\ call.run.dropped = <<1>>
  /\ fs[csv_file].kind = "table"
  /\ fs[csv_file].hdr = <<2, 3>>
  /\ \E i, k \in 1..Len(call.run.df.rows) :
       call.run.df.rows[i][2] = NaN /\ call.run.df.rows[k][2] # NaN
  /\ \A i \in 1..Len(call.run.df.rows) : call.run.df.rows[i][3] # NaN

(* C2: when a batch pass has printed its summary, the successful count     *)
(* plus the failed count equals the number of discovered files.            *)
C2_CountsAddUp ==
  /\ (prog = "prune" /\ batch.phase = "done") =>
       batch.printed.successful + batch.printed.failed = Len(batch.csv_files)
  /\ (prog = "convert" /\ conv.phase = "done") =>
       conv.printed.successful + conv.printed.failed = Len(conv.dta_files)

(* a step that records an exception counts one failure and stays in the loop *)
C3_ExceptionStep ==
  /\ (prog = "prune" /\ batch.phase = "loop" /\ Len(batch'.log) = Len(batch.log) + 1
        /\ batch'.log[Len(batch'.log)].kind = "raised") =>
       /\ batch'.failed = batch.failed + 1
       /\ batch'.successful = batch.successful
       /\ batch'.total_removed = batch.total_removed
       /\ batch'.total_original = batch.total_original
       /\ batch'.phase = "loop"
       /\ batch'.i = batch.i + 1
  /\ (prog = "convert" /\ conv.phase = "loop" /\ Len(conv'.log) = Len(conv.log) + 1
        /\ conv'.log[Len(conv'.log)] # "ok") =>
       /\ conv'.failed = conv.failed + 1
       /\ conv'.successful = conv.successful
       /\ conv'.phase = "loop"
       /\ conv'.i = conv.i + 1

(* the summary is printed only after every discovered file was attempted *)
C3_AllAttempted ==
  /\ batch.phase = "done" => Len(batch.log) = Len(batch.csv_files)
  /\ conv.phase = "done" => Len(conv.log) = Len(conv.dta_files)
  /\ batch.phase \in {"off", "start", "nofiles", "loop", "done"}
  /\ conv.phase \in {"off", "start", "nofiles", "loop", "done"}

(* inside the loop the pass can always take its next step, and that step   *)
(* attempts the next file or, after the last one, prints the summary       *)
C3_CanGoOn ==
  /\ batch.phase = "loop" =>
       /\ batch.i = Len(batch.log) + 1
       /\ IF batch.i <= Len(batch.csv_files)
            THEN ENABLED (\E lk \in BOOLEAN, fault \in BOOLEAN : PF_File(lk, fault))
            ELSE ENABLED PF_Summary
  /\ conv.phase = "loop" =>
       /\ conv.i = Len(conv.log) + 1
       /\ IF conv.i <= Len(conv.dta_files)
            THEN ENABLED (\E raise_at \in RaiseAt : CV_File(raise_at))
            ELSE ENABLED CV_Summary

(* C3: an exception raised for one file increments only the failed counter *)
(* and the loop goes on; the pass can always take its next step until the  *)
(* summary is printed, and when it is printed every discovered file has    *)
(* been attempted.                                                         *)
C3_ExceptionNeverAborts ==
  /\ [][C3_ExceptionStep]_vars
  /\ [](C3_AllAttempted /\ C3_CanGoOn)

(* a file raised, the file after it was still processed and succeeded, and *)
(* the summary was printed *)
C3_Witness ==
  /\ batch.phase = "done"
  /\ Len(batch.log) = 2
  /\ batch.log[1].kind = "raised"
  /\ batch.log[2].kind = "tuple"
  /\ batch.printed.failed = 1
  /\ batch.printed.successful = 1

(* C4: an in-place call whose write to the original path was denied has,   *)
(* when it returns, written the reduced table to the sibling               *)
(* <stem>_cleaned.csv, left the original file as it was, and returned its  *)
(* triple, which the batch pass counts as successful.                      *)
C4_LockedFallback ==
  (Returned /\ Loaded /\ call.inplace /\ call.lk
     /\ \E j \in 1..Len(call.run.df.columns) : AllMissing(call.run.df, j)) =>
    LET df == call.run.df
        kept == { df.columns[j] : j \in { x \in 1..Len(df.columns) : ~AllMissing(df, x) } }
        w == fs[SiblingCleaned]
    IN /\ w.kind = "table"
       /\ { w.hdr[k] : k \in 1..Len(w.hdr) } = kept
       /\ Len(w.hdr) = Cardinality(kept)
       /\ Len(w.rows) = Len(df.rows)
       /\ fs[csv_file] = call.before[csv_file]
       /\ fs[BackupOfOriginal] = call.before[BackupOfOriginal]
       /\ call.run.result = Triple(Len(df.columns), Cardinality(kept),
                                   Len(df.columns) - Cardinality(kept))
       /\ process_file(NoBatch, call.run.result).successful = 1
       /\ process_file(NoBatch, call.run.result).failed = 0

C4_Witness ==
  /\ Returned /\ Loaded /\ call.inplace /\ call.lk
  /\ Len(call.run.dropped) = 1
  /\ Len(call.run.df.columns) = 2
  /\ call.before[SiblingCleaned] = Absent
  /\ fs[SiblingCleaned].kind = "table"
  /\ fs[csv_file] = call.before[csv_file]

(* C5: when an in-place call that returned normally and wrote the original *)
(* path (or found nothing to remove) is followed by a second in-place      *)
(* call, the second returns a triple with zero removed columns and leaves  *)
(* the filesystem as the first left it.                                    *)
C5_Idempotent ==
  (Returned /\ Len(hist) >= 2
     /\ hist[Len(hist) - 1].inplace /\ hist[Len(hist)].inplace
     /\ hist[Len(hist) - 1].result.kind = "tuple"
     /\ ~hist[Len(hist) - 1].diverted) =>
    /\ call.run.result.kind = "tuple"
    /\ call.run.result.removed_cols = 0
    /\ fs = call.before

(* C6: a call that loaded a table none of whose columns is entirely        *)
(* missing or entirely empty never changes the filesystem, and returns     *)
(* (original_cols, original_cols, 0), whatever the in-place flag.          *)
C6_NoOpLeavesFilesAlone ==
  (Loaded /\ \A j \in 1..Len(call.run.df.columns) :
               ~(AllMissing(call.run.df, j) \/ AllEmptyString(call.run.df, j))) =>
    /\ fs = call.before
    /\ call.run.result = Triple(Len(call.run.df.columns), Len(call.run.df.columns), 0)

(* a table with a partially missing column, pruned with inplace=False *)
C6_Witness ==
  /\ Returned /\ Loaded /\ ~call.inplace
  /\ Len(call.run.df.columns) = 2
  /\ Len(call.run.df.rows) = 2
  /\ call.run.df.rows[1][1] = NaN
  /\ call.run.df.rows[2][1] # NaN
  /\ call.run.dropped = <<>>
  /\ call.run.result.kind = "tuple"

(* the steps of a call with inplace=False that has columns to remove *)
C7_Step ==
  (prog = "direct" /\ pc >= 1 /\ ~call.inplace /\ call.run.plan # <<>>) =>
    /\ (fs'[csv_file] # fs[csv_file] /\ fs'[csv_file] # Absent) =>
         /\ fs[BackupOfOriginal] = call.before[csv_file]
         /\ fs[csv_file] = Absent
    /\ pc' = 0 =>
         /\ fs'[BackupOfOriginal] = call.before[csv_file]
         /\ call.run.result.kind = "tuple" =>
              /\ fs'[csv_file].kind = "table"
              /\ fs'[csv_file].hdr =
                   SelectSeq(call.run.df.columns,
                             LAMBDA n : ~AllMissing(call.run.df, PosIn(n, call.run.df.columns)))
              /\ Len(fs'[csv_file].rows) = Len(call.run.df.rows)
         /\ call.run.result.kind # "tuple" => call.run.result = Raised("OSError")

(* C7: in a call with inplace=False that has columns to remove, the        *)
(* original path is written only once the original content is at           *)
(* <name>.backup and the original path is gone; when the call returns its  *)
(* triple the backup holds the original content and the original path the  *)
(* reduced table; when the write fails the backup still holds the original *)
(* content.                                                                *)
C7_BackupThenWrite == [][C7_Step]_vars

C7_Witness ==
  /\ Returned /\ Loaded /\ ~call.inplace
  /\ Len(call.run.dropped) = 1
  /\ call.run.result.kind = "tuple"
  /\ fs[BackupOfOriginal] = call.before[csv_file]
  /\ fs[csv_file].kind = "table"
  /\ Len(fs[csv_file].hdr) = 1

(* sum of a field over the calls of the log that returned a triple *)
RECURSIVE SumOver(_, _)
SumOver(log, field) ==
  IF log = <<>> THEN 0
  ELSE (IF log[1].kind = "tuple" THEN log[1][field] ELSE 0) + SumOver(Tail(log), field)

Succeeded(log) == Cardinality({ k \in 1..Len(log) : log[k].kind = "tuple" })

(* C8: the printed total of removed columns is the sum of the removed      *)
(* counts of the files whose call returned a triple, the printed average   *)
(* is the sum of their original column counts divided by their number, and *)
(* it is 0 when there is none.                                             *)
C8_SummaryTotals ==
  (prog = "prune" /\ batch.phase = "done") =>
    /\ batch.printed.successful = Succeeded(batch.log)
    /\ batch.printed.total_removed = SumOver(batch.log, "removed_cols")
    /\ batch.printed.average.den > 0
    /\ IF Succeeded(batch.log) = 0
         THEN batch.printed.average.num = 0
         ELSE batch.printed.average.num * Succeeded(batch.log)
                = SumOver(batch.log, "original_cols") * batch.printed.average.den

C8_Witness ==
  /\ prog = "prune" /\ batch.phase = "done"
  /\ Len(batch.log) = 2
  /\ batch.log[1].kind = "tuple" /\ batch.log[1].removed_cols = 1
  /\ batch.log[2].kind = "tuple" /\ batch.log[2].removed_cols = 2
  /\ batch.printed.total_removed = 3

(* how many times e occurs in s *)
Occurrences(e, s) == Cardinality({ k \in 1..Len(s) : s[k] = e })

(* C9: once the converter has searched the tree, every entry whose suffix  *)
(* is the binary tabular extension in any casing is in the list of files   *)
(* to convert exactly once.                                                *)
C9_EveryCasingOnce ==
  (prog = "convert" /\ conv.phase \in {"loop", "done"}) =>
    \A k \in 1..Len(conv.tree) :
      Lower(conv.tree[k].suffix) = ".dta" => Occurrences(conv.tree[k], conv.dta_files) = 1

(* C10: every column of the file in which each field is empty, quoted or   *)
(* not, and every loaded column in which each value is the missing-value   *)
(* marker or the empty string, is in the removal set.                      *)
C10_AllEmptyColumnDropped ==
  Loaded =>
    LET df == call.run.df
        c == call.before[csv_file]
    IN /\ \A j \in 1..Len(df.columns) :
            (\A i \in 1..Len(df.rows) : df.rows[i][j] \in {NaN, EmptyStr}) => Dropped(j)
       /\ \A j \in 1..Len(c.hdr) :
            (\A i \in 1..Len(c.rows) : c.rows[i][j] \in {FBlank, FQuoted}) => Dropped(j)

(* a column of the file that mixes unquoted and quoted empty fields was    *)
(* dropped, the other column was kept *)
C10_Witness ==
  /\ Returned /\ Loaded /\ call.inplace /\ ~call.lk
  /\ call.run.result.kind = "tuple"
  /\ Len(call.before[csv_file].hdr) = 2
  /\ Len(call.before[csv_file].rows) = 2
  /\ call.before[csv_file].rows[1][1] = FBlank
  /\ call.before[csv_file].rows[2][1] = FQuoted
  /\ call.run.dropped = <<1>>
  /\ fs[csv_file].kind = "table"
  /\ fs[csv_file].hdr = <<2>>

====
